---- MODULE Spec2Model ----
(***************************************************************************)
(* Model of src/streamlit_app.py: the "Get Answer" run of the 10-K         *)
(* question-answering app (fetch -> chunk -> per-chunk LLM calls ->        *)
(* optional synthesis call -> display).                                    *)
(*                                                                         *)
(* Strings are modelled as sequences of atoms (short literal pieces of     *)
(* text).  Concatenation is \o, "x in s" for the literals the code         *)
(* searches for is the occurrence of that literal as an atom, str.lower()  *)
(* maps atoms to their lower-case form, and str.strip() is empty exactly   *)
(* when every atom is whitespace.                                          *)
(***************************************************************************)
EXTENDS Naturals, Sequences, FiniteSets, TLC

VARIABLES
    pc,                \* position of the script inside the button handler
    ticker,            \* st.text_input "Enter Firm Ticker"       (line 10)
    question,          \* st.text_area                             (line 12)
    anthropic_api_key, \* st.text_input (password)                 (line 13)
    max_chunk_tokens,  \* parameter of process_10k_text            (line 60)
    env,               \* what the downloader / file system did in fetch_10k_filing
    filing_text,       \* line 183
    processed_chunks,  \* line 189
    token_groups,      \* the token lists handed to encoding.decode (lines 86, 91)
    i,                 \* loop index of enumerate(text_chunks)     (line 113)
    all_responses,     \* line 111
    calls,             \* every client.messages.create call with its outcome
    answer,            \* line 196
    ui,                \* the st.warning/info/error/success/write calls made
    contacted          \* collaborators invoked so far

vars == <<pc, ticker, question, anthropic_api_key, max_chunk_tokens, env,
          filing_text, processed_chunks, token_groups, i, all_responses,
          calls, answer, ui, contacted>>

----------------------------------------------------------------------------
(* Bounds of the model *)

\* longest filing, in tokens
MaxDocTokens == 4

\* largest max_chunk_tokens tried (the code's default of 4000 scaled down)
MaxChunkTokens == 3

----------------------------------------------------------------------------
(* Strings *)

WhitespaceAtoms == {" ", "\n", "\n\n"}

\* IsBlank with the strip() forgotten
IsBlank_NoStrip(s) == s = <<>>

\* not s.strip()
IsBlank(s) == \A k \in 1..Len(s) : s[k] \in WhitespaceAtoms

\* str.lower(), atom by atom
LowerAtom(a) ==
    CASE a = "Cannot Answer" -> "cannot answer"
      [] a = "Error" -> "error"
      [] a = "I " -> "i "
      [] a = "Revenue grew." -> "revenue grew."
      [] a = "Could not generate an answer" -> "could not generate an answer"
      [] OTHER -> a

lower(s) == [k \in 1..Len(s) |-> LowerAtom(s[k])]

\* "lit" in s
HasSub(s, lit) == \E k \in 1..Len(s) : s[k] = lit

\* sep.join(parts)
RECURSIVE join(_, _)
join(sep, parts) ==
    IF parts = <<>> THEN <<>>
    ELSE IF Len(parts) = 1 THEN parts[1]
    ELSE parts[1] \o sep \o join(sep, Tail(parts))

Separator == <<"\n\n", "---", "\n\n">>

year == "2023"

----------------------------------------------------------------------------
(* Tokenizer (tiktoken): one token id per atom of the vocabulary *)

Words == <<"revenue ", "risk ", "debt ", "cash ", "tax ", "lease ">>

Vocab == Words \o <<"An error occurred: ", "timeout", "Connection", "Error",
                    "Could not find content", " ">>

encode(text) ==
    [k \in 1..Len(text) |-> CHOOSE t \in 1..Len(Vocab) : Vocab[t] = text[k]]

decode(tokens) == [k \in 1..Len(tokens) |-> Vocab[tokens[k]]]

----------------------------------------------------------------------------
(* fetch_10k_filing *)

\* str(e) of the exceptions the download can raise
FetchErrors == { <<"timeout">>, <<"Connection", "Error">> }

\* contents of the downloaded .txt file
FilingContents ==
    { SubSeq(Words, 1, n) : n \in 0..MaxDocTokens }
        \cup { <<"revenue ", "Error">>, <<"Could not find content", " ">> }

FetchEnvs ==
    [kind : {"raise"}, e : FetchErrors, content : {<<>>}]
        \cup [kind : {"nopath", "notxt"}, e : {<<>>}, content : {<<>>}]
        \cup [kind : {"file"}, e : {<<>>}, content : FilingContents]

NotFoundMessage(t, y) ==
    <<"Could not find content", " in downloaded filing for ", t, " in ", y, ".">>

fetch_10k_filing(t, y, environment) ==
    IF environment.kind = "raise"
    THEN <<"An error occurred: ">> \o environment.e
    ELSE LET filing_content ==
                 IF environment.kind = "file" THEN environment.content ELSE <<>>
         IN IF filing_content = <<>>
            THEN NotFoundMessage(t, y)
            ELSE filing_content

----------------------------------------------------------------------------
(* process_10k_text *)

\* the for loop of lines 83-87; acc = [chunks, groups, current]
RECURSIVE ChunkLoop(_, _, _)
ChunkLoop(tokens, M, acc) ==
    IF tokens = <<>> THEN acc
    ELSE LET current_chunk_tokens == Append(acc.current, Head(tokens))
         IN IF Len(current_chunk_tokens) >= M
            THEN ChunkLoop(Tail(tokens), M,
                     [chunks  |-> Append(acc.chunks, decode(current_chunk_tokens)),
                      groups  |-> Append(acc.groups, current_chunk_tokens),
                      current |-> <<>>])
            ELSE ChunkLoop(Tail(tokens), M,
                     [acc EXCEPT !.current = current_chunk_tokens])

\* ChunkTail with the remainder dropped
ChunkTail_Dropped(acc) == acc

\* ChunkTail with the emptiness test forgotten
ChunkTail_Always(acc) ==
    [chunks  |-> Append(acc.chunks, decode(acc.current)),
     groups  |-> Append(acc.groups, acc.current),
     current |-> <<>>]

\* lines 89-91: the last chunk, if not empty
ChunkTail(acc) ==
    IF acc.current # <<>>
    THEN [chunks  |-> Append(acc.chunks, decode(acc.current)),
          groups  |-> Append(acc.groups, acc.current),
          current |-> <<>>]
    ELSE acc

process_10k_text(text, M) ==
    ChunkTail(ChunkLoop(encode(text), M,
                        [chunks |-> <<>>, groups |-> <<>>, current |-> <<>>]))

----------------------------------------------------------------------------
(* get_answer_from_anthropic *)

\* message.content[0].text of a successful call
ResponseTexts ==
    { <<>>, <<" ">>, <<"Revenue grew.">>,
      <<"I ", "Cannot Answer", " from this text.">>,
      <<"Error", " rate was 2%.">> }

\* str(e) of a failed call
LLMErrors == { <<"rate limit">>, <<"model ", "cannot answer", " right now">> }

LLMOutcomes ==
    [ok : {TRUE}, out : ResponseTexts] \cup [ok : {FALSE}, out : LLMErrors]

\* ChunkResponse with the 0-based index in the error marker
ChunkResponse_ZeroBased(idx, outcome) ==
    IF outcome.ok
    THEN outcome.out
    ELSE <<"Error", " processing chunk ", ToString(idx), ": ">> \o outcome.out

\* lines 137 and 141: what iteration idx (0-based) appends to all_responses
ChunkResponse(idx, outcome) ==
    IF outcome.ok
    THEN outcome.out
    ELSE <<"Error", " processing chunk ", ToString(idx + 1), ": ">> \o outcome.out

\* NonDeclining with the "not" forgotten
NonDeclining_Inverted(responses) ==
    { k \in 1..Len(responses) : HasSub(lower(responses[k]), "cannot answer") }

\* NonDeclining with the lower() forgotten
NonDeclining_CaseSensitive(responses) ==
    { k \in 1..Len(responses) : ~HasSub(responses[k], "cannot answer") }

\* line 148: [resp for resp in all_responses if "cannot answer" not in resp.lower()]
NonDeclining(responses) ==
    { k \in 1..Len(responses) : ~HasSub(lower(responses[k]), "cannot answer") }

\* NeedsSynthesis with the threshold one too high
NeedsSynthesis_Strict(text_chunks, responses) ==
    Len(text_chunks) > 1 /\ Cardinality(NonDeclining(responses)) > 2

\* NeedsSynthesis with the threshold one too low
NeedsSynthesis_Eager(text_chunks, responses) ==
    Len(text_chunks) > 1 /\ Cardinality(NonDeclining(responses)) > 0

\* line 148
NeedsSynthesis(text_chunks, responses) ==
    Len(text_chunks) > 1 /\ Cardinality(NonDeclining(responses)) > 1

\* NoAnswerMessage left empty
NoAnswerMessage_Empty == <<>>

NoAnswerMessage ==
    <<"Could not generate an answer", " based on the provided text.">>

\* SynthesisResult whose fallback leaves the partial answers out
SynthesisResult_NoteOnly(outcome, synthesized_answer) ==
    IF outcome.ok
    THEN outcome.out
    ELSE <<"Generated partial answers but failed to synthesize: ">>
             \o <<"\n", "Error", ": ">> \o outcome.out

\* lines 169 and 172
SynthesisResult(outcome, synthesized_answer) ==
    IF outcome.ok
    THEN outcome.out
    ELSE <<"Generated partial answers but failed to synthesize: ">>
             \o synthesized_answer \o <<"\n", "Error", ": ">> \o outcome.out

----------------------------------------------------------------------------
(* The button handler *)

St(fn, text) == [fn |-> fn, text |-> text]

\* InputsMissing with "and" in place of "or"
InputsMissing_All(t, q, k) == t = "" /\ q = "" /\ k = ""

\* line 179
InputsMissing(t, q, k) == t = "" \/ q = "" \/ k = ""

\* IsFetchError without the "Could not find content" test
IsFetchError_ErrorOnly(text) == HasSub(text, "Error")

\* line 185
IsFetchError(text) ==
    HasSub(text, "Error") \/ HasSub(text, "Could not find content")

\* line 198
IsAnswerError(a) ==
    HasSub(a, "Error") \/ HasSub(a, "Could not generate an answer")

Init ==
    /\ pc = "button"
    /\ ticker \in {"", "ACME"}
    /\ question \in {"", "What is the main risk factor?"}
    /\ anthropic_api_key \in {"", "sk-key"}
    /\ max_chunk_tokens \in 1..MaxChunkTokens
    /\ env = [kind |-> "none", e |-> <<>>, content |-> <<>>]
    /\ filing_text = <<>>
    /\ processed_chunks = <<>>
    /\ token_groups = <<>>
    /\ i = 0
    /\ all_responses = <<>>
    /\ calls = <<>>
    /\ answer = <<>>
    /\ ui = <<>>
    /\ contacted = {}

\* lines 178-182
Validate ==
    /\ pc = "button"
    /\ IF InputsMissing(ticker, question, anthropic_api_key)
       THEN /\ ui' = Append(ui, St("warning",
                        <<"Please fill in Ticker, Question, and Anthropic API Key.">>))
            /\ pc' = "end"
       ELSE /\ ui' = Append(ui, St("info",
                        <<"Fetching 10-K for ", ticker, " (", year, ")...">>))
            /\ pc' = "fetch"
    /\ UNCHANGED <<ticker, question, anthropic_api_key, max_chunk_tokens, env,
                   filing_text, processed_chunks, token_groups, i,
                   all_responses, calls, answer, contacted>>

\* line 183
Fetch ==
    /\ pc = "fetch"
    /\ \E environment \in FetchEnvs :
          /\ env' = environment
          /\ filing_text' = fetch_10k_filing(ticker, year, environment)
    /\ contacted' = contacted \cup {"filing"}
    /\ pc' = "gate"
    /\ UNCHANGED <<ticker, question, anthropic_api_key, max_chunk_tokens,
                   processed_chunks, token_groups, i, all_responses, calls,
                   answer, ui>>

\* Gate that fetches again after a fetch error
Gate_Retry ==
    /\ pc = "gate"
    /\ IF IsFetchError(filing_text)
       THEN /\ ui' = ui
            /\ pc' = "fetch"
       ELSE /\ ui' = Append(ui, St("success",
                        <<"10-K fetched successfully. Processing...">>))
            /\ pc' = "chunk"
    /\ UNCHANGED <<ticker, question, anthropic_api_key, max_chunk_tokens, env,
                   filing_text, processed_chunks, token_groups, i,
                   all_responses, calls, answer, contacted>>

\* lines 185-188
Gate ==
    /\ pc = "gate"
    /\ IF IsFetchError(filing_text)
       THEN /\ ui' = Append(ui, St("error", filing_text))
            /\ pc' = "end"
       ELSE /\ ui' = Append(ui, St("success",
                        <<"10-K fetched successfully. Processing...">>))
            /\ pc' = "chunk"
    /\ UNCHANGED <<ticker, question, anthropic_api_key, max_chunk_tokens, env,
                   filing_text, processed_chunks, token_groups, i,
                   all_responses, calls, answer, contacted>>

\* line 189
Chunk ==
    /\ pc = "chunk"
    /\ LET r == process_10k_text(filing_text, max_chunk_tokens)
       IN /\ processed_chunks' = r.chunks
          /\ token_groups' = r.groups
    /\ contacted' = contacted \cup {"chunker"}
    /\ pc' = "chunked"
    /\ UNCHANGED <<ticker, question, anthropic_api_key, max_chunk_tokens, env,
                   filing_text, i, all_responses, calls, answer, ui>>

\* lines 191-194, and lines 110-111 on entry to get_answer_from_anthropic
CheckChunks ==
    /\ pc = "chunked"
    /\ IF processed_chunks = <<>>
       THEN /\ ui' = Append(ui, St("warning",
                        <<"Could not process the 10-K text into usable chunks.">>))
            /\ pc' = "end"
       ELSE /\ ui' = Append(ui, St("success",
                        <<"10-K processed into ", ToString(Len(processed_chunks)),
                          " chunks. Getting answer from Anthropic...">>))
            /\ pc' = "loop"
    /\ i' = 0
    /\ all_responses' = <<>>
    /\ UNCHANGED <<ticker, question, anthropic_api_key, max_chunk_tokens, env,
                   filing_text, processed_chunks, token_groups, calls, answer,
                   contacted>>

\* AnswerChunk that assigns the list where the code appends to it
AnswerChunk_Overwrite ==
    /\ pc = "loop"
    /\ i < Len(processed_chunks)
    /\ \E outcome \in LLMOutcomes :
          /\ calls' = Append(calls,
                 [kind    |-> "chunk",
                  ordinal |-> i + 1,
                  total   |-> Len(processed_chunks),
                  body    |-> processed_chunks[i + 1],
                  ok      |-> outcome.ok,
                  out     |-> outcome.out])
          /\ all_responses' = << ChunkResponse(i, outcome) >>
    /\ i' = i + 1
    /\ contacted' = contacted \cup {"llm"}
    /\ UNCHANGED <<pc, ticker, question, anthropic_api_key, max_chunk_tokens,
                   env, filing_text, processed_chunks, token_groups, answer, ui>>

\* AnswerChunk that sends a chunk again after its call failed
AnswerChunk_RetryOnce ==
    /\ pc = "loop"
    /\ i < Len(processed_chunks)
    /\ \E first \in LLMOutcomes, second \in LLMOutcomes :
          LET sent(outcome) ==
                  [kind    |-> "chunk",
                   ordinal |-> i + 1,
                   total   |-> Len(processed_chunks),
                   body    |-> processed_chunks[i + 1],
                   ok      |-> outcome.ok,
                   out     |-> outcome.out]
          IN IF first.ok
             THEN /\ calls' = Append(calls, sent(first))
                  /\ all_responses' = Append(all_responses, ChunkResponse(i, first))
             ELSE /\ calls' = calls \o << sent(first), sent(second) >>
                  /\ all_responses' = Append(all_responses, ChunkResponse(i, second))
    /\ i' = i + 1
    /\ contacted' = contacted \cup {"llm"}
    /\ UNCHANGED <<pc, ticker, question, anthropic_api_key, max_chunk_tokens,
                   env, filing_text, processed_chunks, token_groups, answer, ui>>

\* one iteration of the loop of lines 113-141
AnswerChunk ==
    /\ pc = "loop"
    /\ i < Len(processed_chunks)
    /\ \E outcome \in LLMOutcomes :
          /\ calls' = Append(calls,
                 [kind    |-> "chunk",
                  ordinal |-> i + 1,
                  total   |-> Len(processed_chunks),
                  body    |-> processed_chunks[i + 1],
                  ok      |-> outcome.ok,
                  out     |-> outcome.out])
          /\ all_responses' = Append(all_responses, ChunkResponse(i, outcome))
    /\ i' = i + 1
    /\ contacted' = contacted \cup {"llm"}
    /\ UNCHANGED <<pc, ticker, question, anthropic_api_key, max_chunk_tokens,
                   env, filing_text, processed_chunks, token_groups, answer, ui>>

\* lines 143-148 and 174: after the loop
Combine ==
    /\ pc = "loop"
    /\ i >= Len(processed_chunks)
    /\ LET synthesized_answer == join(Separator, all_responses)
       IN IF IsBlank(synthesized_answer)
          THEN answer' = NoAnswerMessage /\ pc' = "show"
          ELSE IF NeedsSynthesis(processed_chunks, all_responses)
          THEN answer' = answer /\ pc' = "synth"
          ELSE answer' = synthesized_answer /\ pc' = "show"
    /\ UNCHANGED <<ticker, question, anthropic_api_key, max_chunk_tokens, env,
                   filing_text, processed_chunks, token_groups, i,
                   all_responses, calls, ui, contacted>>

\* lines 149-172: the synthesis call
Synthesize ==
    /\ pc = "synth"
    /\ LET synthesized_answer == join(Separator, all_responses)
       IN \E outcome \in LLMOutcomes :
             /\ calls' = Append(calls,
                    [kind    |-> "synthesis",
                     ordinal |-> 0,
                     total   |-> Len(processed_chunks),
                     body    |-> synthesized_answer,
                     ok      |-> outcome.ok,
                     out     |-> outcome.out])
             /\ answer' = SynthesisResult(outcome, synthesized_answer)
    /\ pc' = "show"
    /\ UNCHANGED <<ticker, question, anthropic_api_key, max_chunk_tokens, env,
                   filing_text, processed_chunks, token_groups, i,
                   all_responses, ui, contacted>>

\* lines 198-203
Show ==
    /\ pc = "show"
    /\ IF IsAnswerError(answer)
       THEN ui' = Append(ui, St("error", answer))
       ELSE ui' = ui \o << St("success", <<"Answer received!">>),
                           St("write", <<"## Answer:">>),
                           St("write", answer) >>
    /\ pc' = "end"
    /\ UNCHANGED <<ticker, question, anthropic_api_key, max_chunk_tokens, env,
                   filing_text, processed_chunks, token_groups, i,
                   all_responses, calls, answer, contacted>>

Next ==
    \/ Validate
    \/ Fetch
    \/ Gate
    \/ Chunk
    \/ CheckChunks
    \/ AnswerChunk
    \/ Combine
    \/ Synthesize
    \/ Show

Spec == Init /\ [][Next]_vars

\* the script runs on: every enabled step is eventually taken, each
\* collaborator call returning or failing
SpecLive == Init /\ [][Next]_vars /\ WF_vars(Next)

----------------------------------------------------------------------------
(* process_10k_text called on its own, on every short token stream *)

ChunkerTexts ==
    UNION { [1..n -> {Words[1], Words[2], Words[3]}] : n \in 0..MaxDocTokens }

InitChunk ==
    /\ pc = "chunk"
    /\ ticker = "ACME"
    /\ question = "What is the main risk factor?"
    /\ anthropic_api_key = "sk-key"
    /\ max_chunk_tokens \in 1..MaxChunkTokens
    /\ filing_text \in ChunkerTexts
    /\ env = [kind |-> "file", e |-> <<>>, content |-> filing_text]
    /\ processed_chunks = <<>>
    /\ token_groups = <<>>
    /\ i = 0
    /\ all_responses = <<>>
    /\ calls = <<>>
    /\ answer = <<>>
    /\ ui = << St("info", <<"Fetching 10-K for ", ticker, " (", year, ")...">>),
               St("success", <<"10-K fetched successfully. Processing...">>) >>
    /\ contacted = {"filing"}

NextChunk == Chunk

SpecChunk == InitChunk /\ [][NextChunk]_vars

----------------------------------------------------------------------------
(* Vocabulary of the properties *)

N == Len(processed_chunks)

\* get_answer_from_anthropic has returned
Returned == pc \in {"show", "end"} /\ N >= 1

Last(s) == s[Len(s)]

\* the decline phrase, in any capitalisation
Declines(r) == \E k \in 1..Len(r) : r[k] \in {"cannot answer", "Cannot Answer"}

NotDeclining == { k \in 1..Len(all_responses) : ~Declines(all_responses[k]) }

AllWhitespace(r) == \A k \in 1..Len(r) : r[k] \in {" ", "\n", "\n\n"}

\* t occurs in s as a contiguous piece
ContainsSeq(s, t) ==
    \E o \in 0..Len(s) : o + Len(t) <= Len(s) /\ SubSeq(s, o + 1, o + Len(t)) = t

\* the error marker of chunk ordinal k
IsErrorMarker(r, k) ==
    /\ Len(r) >= 4
    /\ r[1] = "Error"
    /\ r[2] = " processing chunk "
    /\ r[3] = ToString(k)
    /\ r[4] = ": "

ChunkCalls == { k \in 1..Len(calls) : calls[k].kind = "chunk" }

SynthesisCalls == { k \in 1..Len(calls) : calls[k].kind = "synthesis" }

RECURSIVE Flatten(_)
Flatten(groups) ==
    IF groups = <<>> THEN <<>> ELSE Head(groups) \o Flatten(Tail(groups))

----------------------------------------------------------------------------
(* C1: however many of the per-chunk calls fail, the loop calls the LLM    *)
(* once for every chunk in order, records exactly one PartialAnswer per    *)
(* chunk in chunk order, and entry k is the error marker naming ordinal k  *)
(* exactly when call k failed; otherwise it is the text call k returned.   *)
C1_PartialFailureTolerance ==
    (pc \in {"loop", "synth", "show", "end"} /\ N >= 1) =>
        /\ i <= N
        /\ Len(all_responses) = i
        /\ (pc # "loop" => i = N)
        /\ Cardinality(ChunkCalls) = i
        /\ \A k \in 1..i :
              /\ calls[k].kind = "chunk"
              /\ calls[k].ordinal = k
              /\ calls[k].total = N
              /\ calls[k].body = processed_chunks[k]
              /\ (IsErrorMarker(all_responses[k], k) <=> ~calls[k].ok)
              /\ (calls[k].ok => all_responses[k] = calls[k].out)
              /\ (~calls[k].ok =>
                      SubSeq(all_responses[k], 5, Len(all_responses[k])) = calls[k].out)

C1_Witness ==
    /\ Returned
    /\ N = 3
    /\ calls[1].ok /\ ~calls[2].ok /\ calls[3].ok
    /\ IsErrorMarker(all_responses[2], 2)

(* C2: the token groups decoded into chunks partition encode(T) exactly:   *)
(* concatenated in order they are encode(T), each has at most M tokens,    *)
(* each but the last has exactly M, and chunk g is the decoding of group g.*)
C2_ChunksPartitionTokens ==
    (pc = "chunked" /\ filing_text # <<>>) =>
        /\ Flatten(token_groups) = encode(filing_text)
        /\ Len(processed_chunks) = Len(token_groups)
        /\ \A g \in 1..Len(token_groups) :
              /\ Len(token_groups[g]) <= max_chunk_tokens
              /\ Len(token_groups[g]) >= 1
              /\ (g < Len(token_groups) => Len(token_groups[g]) = max_chunk_tokens)
              /\ processed_chunks[g] = decode(token_groups[g])
        /\ Flatten(processed_chunks) = filing_text

C2_Witness ==
    /\ pc = "chunked"
    /\ Len(filing_text) = 3
    /\ max_chunk_tokens = 2
    /\ Len(token_groups) = 2
    /\ Len(token_groups[2]) = 1

(* C3, as stated (on a run whose filing was read from the downloaded       *)
(* file): with N >= 2 chunks and at least two PartialAnswers               *)
(* without the decline phrase, exactly one more LLM call follows the N     *)
(* chunk calls and the function returns that call's output.                *)
C3_Original ==
    (Returned /\ env.kind = "file" /\ N >= 2 /\ Cardinality(NotDeclining) >= 2) =>
        /\ Len(calls) = N + 1
        /\ SynthesisCalls = {N + 1}
        /\ answer = calls[N + 1].out

(* C3, amended: ... exactly one more LLM call follows the N chunk calls,   *)
(* carrying the joined partial answers, and when that call succeeds the    *)
(* function returns its output.                                            *)
C3_SynthesisCallMade ==
    (Returned /\ N >= 2 /\ Cardinality(NotDeclining) >= 2) =>
        /\ Len(calls) = N + 1
        /\ SynthesisCalls = {N + 1}
        /\ ContainsSeq(calls[N + 1].body, all_responses[1])
        /\ (calls[N + 1].ok => answer = calls[N + 1].out)

C3_Witness ==
    /\ Returned
    /\ N = 3
    /\ Cardinality(NotDeclining) = 2
    /\ Len(calls) = 4
    /\ calls[4].ok
    /\ answer = <<"Revenue grew.">>

(* C4: with N >= 2 chunks and at most one PartialAnswer without the        *)
(* decline phrase, the function returns all N PartialAnswers joined in     *)
(* chunk order by the separator and makes no call beyond the N chunk calls.*)
C4_ConcatenationWithoutSynthesis ==
    (Returned /\ N >= 2 /\ Cardinality(NotDeclining) <= 1) =>
        /\ answer = join(<<"\n\n", "---", "\n\n">>, all_responses)
        /\ Len(calls) = N
        /\ SynthesisCalls = {}

C4_Witness ==
    /\ Returned
    /\ N = 3
    /\ Cardinality(NotDeclining) = 1
    /\ ~Declines(all_responses[2])
    /\ Len(calls) = 3

(* C5, as stated (filing read from the downloaded file): with exactly one  *)
(* chunk the function returns that chunk's                                 *)
(* PartialAnswer text unchanged, whatever the text, and makes no synthesis *)
(* call.                                                                   *)
C5_Original ==
    (Returned /\ env.kind = "file" /\ N = 1) =>
        /\ answer = all_responses[1]
        /\ SynthesisCalls = {}

(* C5, amended: with exactly one chunk the function makes no synthesis     *)
(* call and returns the PartialAnswer text unchanged unless that text is   *)
(* empty or whitespace-only, in which case it returns the "Could not       *)
(* generate an answer" message.                                            *)
C5_SingleChunkPassThrough ==
    (Returned /\ N = 1) =>
        /\ Len(calls) = 1
        /\ SynthesisCalls = {}
        /\ (~AllWhitespace(all_responses[1]) => answer = all_responses[1])
        /\ (AllWhitespace(all_responses[1]) =>
                answer = <<"Could not generate an answer", " based on the provided text.">>)

C5_Witness ==
    /\ Returned
    /\ N = 1
    /\ all_responses[1] = <<" ">>
    /\ answer # all_responses[1]

(* C6: when the synthesis call fails, the function still returns: its      *)
(* result holds all N PartialAnswers joined in chunk order, a note that    *)
(* synthesis failed and the error, and no LLM call follows the failed one. *)
C6_SynthesisFailureFallback ==
    (pc \in {"show", "end"} /\ \E k \in SynthesisCalls : ~calls[k].ok) =>
        /\ Len(calls) = N + 1
        /\ SynthesisCalls = {N + 1}
        /\ ContainsSeq(answer, join(<<"\n\n", "---", "\n\n">>, all_responses))
        /\ \A k \in 1..N : ContainsSeq(answer, all_responses[k])
        /\ answer[1] = "Generated partial answers but failed to synthesize: "
        /\ ContainsSeq(answer, calls[N + 1].out)

C6_Witness ==
    /\ pc = "end"
    /\ N = 2
    /\ Len(calls) = 3
    /\ ~calls[3].ok
    /\ calls[1].ok /\ calls[2].ok

(* C7, as stated (filing read from the downloaded file): when every one of *)
(* N >= 2 chunks yields a PartialAnswer                                    *)
(* with the decline phrase, the outcome is the "Could not generate an      *)
(* answer" outcome.                                                        *)
C7_Original ==
    (Returned /\ env.kind = "file" /\ N >= 2 /\ NotDeclining = {}) =>
        /\ answer = <<"Could not generate an answer", " based on the provided text.">>
        /\ (pc = "end" => Last(ui) = St("error", answer))

(* C7, amended: when every one of N >= 2 chunks yields a PartialAnswer     *)
(* with the decline phrase, the function makes no synthesis call and       *)
(* returns the N declines joined by the separator: not an empty string and *)
(* not the "Could not generate an answer" message; the run displays that   *)
(* text, as an error only if it contains "Error" or "Could not generate an *)
(* answer".                                                                *)
C7_AllDeclineGivesConcatenation ==
    (Returned /\ N >= 2 /\ NotDeclining = {}) =>
        /\ Len(calls) = N
        /\ answer = join(<<"\n\n", "---", "\n\n">>, all_responses)
        /\ ~AllWhitespace(answer)
        /\ answer # <<"Could not generate an answer", " based on the provided text.">>
        /\ (pc = "end" =>
               /\ Last(ui).text = answer
               /\ (Last(ui).fn = "error" <=>
                      \E k \in 1..Len(answer) :
                          answer[k] \in {"Error", "Could not generate an answer"}))

C7_Witness ==
    /\ pc = "end"
    /\ N = 4
    /\ NotDeclining = {}
    /\ Last(ui) = St("write", answer)

(* C8: whenever the Filing Source fails to produce text (nothing found, or *)
(* the download raises), the run ends with the fetch error shown, and      *)
(* neither the chunker nor the LLM is ever invoked.                        *)
C8_FetchFailureStopsRun ==
    (env.kind \in {"raise", "nopath", "notxt"}) =>
        /\ "chunker" \notin contacted
        /\ "llm" \notin contacted
        /\ calls = <<>>
        /\ (pc = "end" => ui[Len(ui)] = St("error", filing_text))

(* C9: if ticker, question or API key is empty when the run starts, the    *)
(* run stops with the validation warning, which is not the fetch-error     *)
(* outcome, and the filing fetch, the chunker and the LLM are never        *)
(* invoked.                                                                *)
C9_ValidationStopsRun ==
    (ticker = "" \/ question = "" \/ anthropic_api_key = "") =>
        /\ contacted = {}
        /\ calls = <<>>
        /\ pc \in {"button", "end"}
        /\ env.kind = "none"
        /\ \A k \in 1..Len(ui) : ui[k].fn # "error"
        /\ (pc = "end" =>
               ui = << St("warning",
                    <<"Please fill in Ticker, Question, and Anthropic API Key.">>) >>)

C9_Witness ==
    /\ pc = "end"
    /\ ticker = "ACME"
    /\ question = ""
    /\ anthropic_api_key = "sk-key"
    /\ Len(ui) = 1

(* C10: once the run has a non-empty chunk list, failures of chunk calls   *)
(* or of the synthesis call never make it end in the error outcome: the    *)
(* result is presented as an answer.  (Only runs whose filing was read     *)
(* from the downloaded file, in which some call failed and no successful   *)
(* call returned text holding "Error" or "Could not generate an answer",   *)
(* are considered.)                                                        *)
C10_FailuresNeverEndInError ==
    ( /\ pc = "end"
      /\ N >= 1
      /\ env.kind = "file"
      /\ \E k \in 1..Len(calls) : ~calls[k].ok
      /\ \A k \in 1..Len(calls) :
            calls[k].ok =>
                \A j \in 1..Len(calls[k].out) :
                    calls[k].out[j] \notin {"Error", "Could not generate an answer"} ) =>
        /\ Last(ui) = St("write", answer)
        /\ \A k \in 1..Len(ui) : ui[k].fn # "error"

(* C11: when the retrieved filing text is empty, the run ends with an      *)
(* empty-document message that differs from the message shown for a        *)
(* filing that was not found, and no LLM call is made.                     *)
C11_EmptyDocumentDistinct ==
    (env.kind = "file" /\ env.content = <<>>) =>
        /\ calls = <<>>
        /\ "llm" \notin contacted
        /\ (pc = "end" =>
               /\ Last(ui).fn \in {"error", "warning"}
               /\ Last(ui).text #
                      <<"Could not find content", " in downloaded filing for ",
                        ticker, " in ", "2023", ".">>)

(* C12: for a token stream of length n and max_chunk_tokens M the chunker  *)
(* returns ceil(n / M) chunks: none for empty text, n div M full chunks    *)
(* and, when M does not divide n, one remainder chunk of n mod M tokens;   *)
(* there is no empty trailing chunk.                                       *)
C12_ChunkCount ==
    (pc = "chunked") =>
        LET n == Len(encode(filing_text))
            M == max_chunk_tokens
            full == { g \in 1..Len(token_groups) : Len(token_groups[g]) = M }
        IN /\ Len(processed_chunks) = (n + M - 1) \div M
           /\ Len(token_groups) = Len(processed_chunks)
           /\ (n = 0 => processed_chunks = <<>>)
           /\ Cardinality(full) = n \div M
           /\ (n % M # 0 =>
                  /\ Len(processed_chunks) = (n \div M) + 1
                  /\ Len(token_groups[Len(token_groups)]) = n % M)
           /\ (n % M = 0 => Len(processed_chunks) = n \div M)
           /\ \A g \in 1..Len(processed_chunks) : processed_chunks[g] # <<>>

C12_Witness ==
    /\ pc = "chunked"
    /\ Len(filing_text) = 4
    /\ max_chunk_tokens = 2
    /\ Len(processed_chunks) = 2

(* C13: for any number of chunks N >= 1, if every PartialAnswer is empty   *)
(* or whitespace-only, the function returns the "Could not generate an     *)
(* answer" message.  (Runs whose filing was read from the downloaded       *)
(* file.)                                                                  *)
C13_AllBlankGivesNoAnswer ==
    ( /\ Returned
      /\ env.kind = "file"
      /\ \A k \in 1..Len(all_responses) : AllWhitespace(all_responses[k]) ) =>
        answer = <<"Could not generate an answer", " based on the provided text.">>

(* C14, as stated (filing read from the downloaded file): if at most one   *)
(* chunk's call succeeded with a non-declining answer, every other chunk   *)
(* having declined or failed, no synthesis call is made.                   *)
C14_Original ==
    ( /\ env.kind = "file"
      /\ pc \in {"synth", "show", "end"}
      /\ Cardinality({ k \in ChunkCalls :
                          calls[k].ok /\ ~Declines(calls[k].out) }) <= 1 ) =>
        SynthesisCalls = {}

(* C14, amended: the synthesis call is issued only after all N >= 2 chunks *)
(* were processed and at least two PartialAnswers lack the decline phrase, *)
(* where the error marker of a failed chunk counts as a PartialAnswer      *)
(* lacking it unless its error text holds the phrase; so if at most one    *)
(* PartialAnswer (answer or error marker) lacks the phrase, no synthesis   *)
(* call is made.                                                           *)
C14_SynthesisOnlyWithTwoNonDeclining ==
    /\ (SynthesisCalls # {} \/ pc = "synth") =>
           /\ N >= 2
           /\ Len(all_responses) = N
           /\ Cardinality(NotDeclining) >= 2
    /\ (pc \in {"show", "end"} /\ Cardinality(NotDeclining) <= 1) =>
           SynthesisCalls = {}

C14_Witness ==
    /\ pc = "end"
    /\ N = 2
    /\ ~calls[1].ok /\ ~calls[2].ok
    /\ ~Declines(all_responses[1]) /\ ~Declines(all_responses[2])
    /\ SynthesisCalls = {3}

----------------------------------------------------------------------------
(* Stages of the run *)

\* IDLE 0, FETCHING 1, CHUNKING 2, ANSWERING 3, SYNTHESIZING 4, DONE / ERRORED 5
StageOf(p) ==
    CASE p = "button" -> 0
      [] p \in {"fetch", "gate"} -> 1
      [] p \in {"chunk", "chunked"} -> 2
      [] p = "loop" -> 3
      [] p \in {"synth", "show"} -> 4
      [] OTHER -> 5

\* the fetch produced the text of a filing
FetchSucceeded == env.kind = "file" /\ env.content # <<>>

(* C15: the stages occur only in the order IDLE, FETCHING, CHUNKING,       *)
(* ANSWERING, SYNTHESIZING, DONE, never going back; no LLM call is made    *)
(* before the fetch has succeeded and chunking has produced a chunk; chunk *)
(* call k + 1 follows the end of chunk call k; the synthesis call follows  *)
(* all N chunk calls; after DONE or ERRORED no collaborator is called.     *)
C15_CallOrdering ==
    [][ /\ StageOf(pc') >= StageOf(pc)
        /\ (calls' # calls =>
               /\ Len(calls') = Len(calls) + 1
               /\ SubSeq(calls', 1, Len(calls)) = calls
               /\ StageOf(pc) \in {3, 4}
               /\ (calls'[Len(calls')].kind = "chunk" =>
                      /\ calls'[Len(calls')].ordinal = Len(calls) + 1
                      /\ Len(all_responses) = Len(calls))
               /\ (calls'[Len(calls')].kind = "synthesis" =>
                      /\ Len(calls) = N
                      /\ Len(all_responses) = N
                      /\ \A k \in 1..N : calls[k].kind = "chunk"))
        /\ (pc = "end" => contacted' = contacted /\ calls' = calls) ]_vars

(* C15, in full: the ordering above, and every LLM call is preceded by a   *)
(* successful fetch and a non-empty chunk list.                            *)
C15_StageOrdering ==
    /\ C15_CallOrdering
    /\ [](calls # <<>> => FetchSucceeded /\ N >= 1)

(* C16: if every collaborator call eventually returns or fails, every     *)
(* started run eventually ends (DONE or ERRORED); it never loops or stays  *)
(* forever in FETCHING, CHUNKING, ANSWERING or SYNTHESIZING.               *)
C16_Termination == <>(pc = "end")

C16_Witness ==
    /\ pc = "end"
    /\ N = 2
    /\ Len(calls) = 3
    /\ ~calls[1].ok
    /\ ~calls[3].ok

(* C17: a recorded PartialAnswer is never changed, removed or reordered by *)
(* later chunk calls or by the synthesis step, and the chunk list is left  *)
(* unchanged by answering and synthesis.                                   *)
C17_PartialAnswersWriteOnce ==
    [][ /\ Len(all_responses') >= Len(all_responses)
        /\ \A k \in 1..Len(all_responses) : all_responses'[k] = all_responses[k]
        /\ (StageOf(pc) >= 3 => processed_chunks' = processed_chunks) ]_vars

C17_Witness ==
    /\ pc = "end"
    /\ N = 3
    /\ Len(all_responses) = 3
    /\ ~calls[3].ok
    /\ Len(calls) = 4
    /\ ~calls[4].ok

(* C18: in every run each chunk is sent to the LLM exactly once (a failed  *)
(* call is not retried) and the synthesis call is attempted at most once:  *)
(* the run makes 0, N or N + 1 LLM calls.                                  *)
C18_CallCount ==
    /\ Cardinality(SynthesisCalls) <= 1
    /\ \A k \in 1..N :
          Cardinality({ c \in ChunkCalls : calls[c].ordinal = k }) <= 1
    /\ (pc \in {"synth", "show", "end"} /\ N >= 1) =>
          \A k \in 1..N :
              Cardinality({ c \in ChunkCalls : calls[c].ordinal = k }) = 1
    /\ (pc = "end") =>
          /\ Len(calls) \in {0, N, N + 1}
          /\ ("llm" \notin contacted => Len(calls) = 0)
          /\ (N >= 1 => Len(calls) = N + Cardinality(SynthesisCalls))

C18_Witness ==
    /\ pc = "end"
    /\ N = 3
    /\ ~calls[2].ok
    /\ Len(calls) = 4

(* C19: the run goes on from FETCHING to CHUNKING exactly when the string  *)
(* returned by fetch_10k_filing holds neither "Error" nor "Could not find  *)
(* content"; a fetched filing whose text holds one of them is shown as a   *)
(* fetch error and is never chunked or sent to the LLM.                    *)
C19_FetchGate ==
    ("filing" \in contacted /\ pc # "gate") =>
        LET clean == \A k \in 1..Len(filing_text) :
                         filing_text[k] \notin {"Error", "Could not find content"}
            proceeded == StageOf(pc) \in {2, 3, 4} \/ "chunker" \in contacted
        IN /\ proceeded <=> clean
           /\ ~clean =>
                 /\ pc = "end"
                 /\ Last(ui) = St("error", filing_text)
                 /\ "chunker" \notin contacted
                 /\ calls = <<>>

C19_Witness ==
    /\ pc = "end"
    /\ env.kind = "file"
    /\ env.content = <<"revenue ", "Error">>
    /\ filing_text = env.content
    /\ Last(ui) = St("error", filing_text)

(* C20, as stated: called with at least one chunk, the function never      *)
(* returns an empty or whitespace-only string, whatever the chunk          *)
(* responses and the synthesis outcome.  (Only runs whose filing was read  *)
(* from the downloaded file and in which some PartialAnswer is not blank   *)
(* are considered.)                                                        *)
C20_Original ==
    ( /\ Returned
      /\ env.kind = "file"
      /\ \E k \in 1..Len(all_responses) : ~AllWhitespace(all_responses[k]) ) =>
        ~AllWhitespace(answer)

(* C20, amended: called with at least one chunk, the function returns an   *)
(* empty or whitespace-only string only when the synthesis call succeeded  *)
(* and itself returned such a text; with synthesis skipped or failed the   *)
(* result is never empty or whitespace-only.                               *)
C20_NonEmptyUnlessSynthesisBlank ==
    Returned =>
        /\ AllWhitespace(answer) =>
              /\ SynthesisCalls = {N + 1}
              /\ calls[N + 1].ok
              /\ answer = calls[N + 1].out
        /\ (SynthesisCalls = {} \/ \E k \in SynthesisCalls : ~calls[k].ok) =>
              /\ answer # <<>>
              /\ ~AllWhitespace(answer)

C20_Witness ==
    /\ Returned
    /\ N = 1
    /\ all_responses[1] = <<>>
    /\ answer = <<"Could not generate an answer", " based on the provided text.">>

====
